---- MODULE Spec2Model ----
(***************************************************************************)
(* Model of the job-search pipeline's core: the deduplicators of the two   *)
(* scraper agents, the application dispatcher (AutoApplyAgent), and the    *)
(* two workflow orchestrators (SupervisorAgent, SimpleSupervisorAgent).    *)
(* Each subsystem has its own specification over its own variables; the    *)
(* variables of the other subsystems keep their constructed values.        *)
(***************************************************************************)
EXTENDS Integers, Sequences, FiniteSets, TLC

VARIABLES
    \* ---- deduplicators (scraper_agent.py, simple_scraper_agent.py)
    dd_agent,      \* which agent's _remove_duplicates is applied
    dd_jobs,       \* the input list of listings
    dd_out,        \* the returned list
    dd_pc,         \* "ready" before the call, "done" after
    \* ---- AutoApplyAgent: the choice of the submission strategy
    dm_job,        \* the listing: its source and its apply_url
    dm_method,     \* what _determine_application_method returned
    dm_handler,    \* the strategy _apply_to_job then awaits
    dm_pc,         \* "ready", "determined", "dispatched"
    \* ---- calculate_skill_match (utils/matching.py)
    sm_user,       \* user_skills
    sm_required,   \* required_skills
    sm_out,        \* the returned map
    sm_pc,         \* "ready" before the call, "done" after
    \* ---- AutoApplyAgent (autoapply_agent.py)
    browser,             \* self.browser: "None", "http_session" or a Browser
    applications_today,  \* self.applications_today
    ap,                  \* per dispatch call: its position and locals
    submitted,           \* per (user, job): submissions the target accepted
    submitted_today,     \* submissions the target accepted since midnight
    batches,             \* number of auto_apply_to_jobs calls started
    \* ---- SupervisorAgent (supervisor_agent.py)
    workflow_running,    \* self.workflow_running
    auto_mode_enabled,   \* self.auto_mode_enabled
    last_scraping_time,  \* self.last_scraping_time, None or an hour
    config,              \* self.config
    call,                \* per caller: the operation it is suspended in
    loop,                \* per auto-mode loop task: its position
    run,                 \* per task: the locals of its trigger_job_search call
    now,                 \* the clock, in hours
    ret,                 \* what the step just taken returned to its caller
    \* ---- SimpleSupervisorAgent (simple_supervisor_agent.py)
    is_auto_mode,          \* self.is_auto_mode
    auto_task,             \* self.auto_task: None or a loop task
    search_results_cache,  \* self.search_results_cache: key -> result
    last_search_time,      \* self.last_search_time
    s_call,                \* per caller: the operation it is suspended in
    s_loop,                \* per _auto_search_loop task: its position
    search,                \* per task: the locals of its trigger_job_search call
    clock                  \* datetime.now(), in half hours

ddVars == <<dd_agent, dd_jobs, dd_out, dd_pc>>
dmVars == <<dm_job, dm_method, dm_handler, dm_pc>>
smVars == <<sm_user, sm_required, sm_out, sm_pc>>
apVars == <<browser, applications_today, ap, submitted, submitted_today, batches>>
supVars == <<workflow_running, auto_mode_enabled, last_scraping_time, config,
             call, loop, run, now, ret>>
simVars == <<is_auto_mode, auto_task, search_results_cache, last_search_time,
             s_call, s_loop, search, clock>>
\* The SupervisorAgent variables other than ret, which both orchestrators write.
supFrame == <<workflow_running, auto_mode_enabled, last_scraping_time, config,
              call, loop, run, now>>
vars == <<dd_agent, dd_jobs, dd_out, dd_pc,
          dm_job, dm_method, dm_handler, dm_pc,
          sm_user, sm_required, sm_out, sm_pc,
          browser, applications_today, ap, submitted, submitted_today, batches,
          workflow_running, auto_mode_enabled, last_scraping_time, config,
          call, loop, run, now, ret,
          is_auto_mode, auto_task, search_results_cache, last_search_time,
          s_call, s_loop, search, clock>>

(***************************************************************************)
(* Strings are sequences of one-character strings, so that lower() and     *)
(* strip() are computed character by character as Python computes them.    *)
(***************************************************************************)
LowerChar(c) ==
    IF c = "A" THEN "a" ELSE IF c = "B" THEN "b" ELSE IF c = "P" THEN "p" ELSE c

Lower(s) == [k \in 1..Len(s) |-> LowerChar(s[k])]

IsSpace(c) == c = " "

RECURSIVE LStrip(_)
LStrip(s) == IF s # <<>> /\ IsSpace(Head(s)) THEN LStrip(Tail(s)) ELSE s

RECURSIVE RStrip(_)
RStrip(s) ==
    IF s # <<>> /\ IsSpace(s[Len(s)]) THEN RStrip(SubSeq(s, 1, Len(s) - 1)) ELSE s

Strip(s) == RStrip(LStrip(s))

\* Bound: longest input list handed to a deduplicator.
MaxJobs == 3

TitlePool == { <<"A">>, <<"a">>, <<"a", " ">>, <<"a", "|", "a">>, <<"a", "_", "a">> }

CompanyPool == { <<"a">>, <<" ", "A">>, <<"a", "|", "a">>, <<"a", "_", "a">> }

Listings == [title : TitlePool, company : CompanyPool]

ListingSeqs == UNION { [1..n -> Listings] : n \in 0..MaxJobs }

\* key = f"{job.title.lower().strip()}|{job.company.lower().strip()}"
SimpleKey(job) == Strip(Lower(job.title)) \o <<"|">> \o Strip(Lower(job.company))

\* key = f"{job.get('title', '').lower()}_{job.get('company', '').lower()}"
ScraperKey(job) == Lower(job.title) \o <<"_">> \o Lower(job.company)

KeyOf(agent, job) == IF agent = "SimpleScraperAgent" THEN SimpleKey(job) ELSE ScraperKey(job)

\* The loop of _remove_duplicates: state is <<seen, unique_jobs>>.
RECURSIVE RemoveLoop(_, _, _, _)
RemoveLoop(agent, jobs, seen, unique_jobs) ==
    IF jobs = <<>> THEN unique_jobs
    ELSE LET job == Head(jobs)
             key == KeyOf(agent, job)
         IN  IF key \notin seen
             THEN RemoveLoop(agent, Tail(jobs), seen \cup {key}, Append(unique_jobs, job))
             ELSE RemoveLoop(agent, Tail(jobs), seen, unique_jobs)

Reverse(q) == [k \in 1..Len(q) |-> q[Len(q) + 1 - k]]

\* Mutant: of the listings with one key the last is kept, not the first.
RemoveDuplicatesKeepLast(agent, jobs) ==
    Reverse(RemoveLoop(agent, Reverse(jobs), {}, <<>>))

_remove_duplicates(agent, jobs) == RemoveLoop(agent, jobs, {}, <<>>)

InitDedup ==
    /\ dd_agent \in {"SimpleScraperAgent", "ScraperAgent"}
    /\ dd_jobs \in ListingSeqs
    /\ dd_out = <<>>
    /\ dd_pc = "ready"

SimpleRemoveDuplicates ==
    /\ dd_pc = "ready"
    /\ dd_agent = "SimpleScraperAgent"
    /\ dd_out' = _remove_duplicates("SimpleScraperAgent", dd_jobs)
    /\ dd_pc' = "done"
    /\ UNCHANGED <<dd_agent, dd_jobs>>
    /\ UNCHANGED <<dmVars, smVars, apVars, supVars, simVars>>

ScraperRemoveDuplicates ==
    /\ dd_pc = "ready"
    /\ dd_agent = "ScraperAgent"
    /\ dd_out' = _remove_duplicates("ScraperAgent", dd_jobs)
    /\ dd_pc' = "done"
    /\ UNCHANGED <<dd_agent, dd_jobs>>
    /\ UNCHANGED <<dmVars, smVars, apVars, supVars, simVars>>

(***************************************************************************)
(* AutoApplyAgent.auto_apply_to_jobs.  A call is a coroutine; it is cut at *)
(* the awaits where it really suspends (the submission, the inter-task     *)
(* delay), so that calls of several tasks can interleave there.            *)
(***************************************************************************)
\* Bound: the ceiling MAX_APPLICATIONS_PER_DAY the process is started with.
max_applications_per_day == 2

\* Bound: longest job_ids list of one call.
MaxBatchLen == 3

\* Bound: number of auto_apply_to_jobs calls in one behaviour.
MaxBatches == 2

Dispatchers == {1, 2}

UserIds == {1, 2}

\* Users with a row in the store; database.get_user_by_id returns None for the rest.
KnownUsers == {1}

JobIds == {1, 2}

JobIdSeqs == UNION { [1..n -> JobIds] : n \in 0..MaxBatchLen }

\* The locals of a call; before is applications_today as the call found it, and
\* gap tells what the call did last: "first" (no _apply_to_job awaited yet),
\* "attempted" (an await of _apply_to_job ended) or "waited" (a delay ended).
IdleCall ==
    [pc |-> "idle", user_id |-> 1, job_ids |-> <<>>, i |-> 1,
     results |-> <<>>, fetched |-> <<>>, exit |-> "none", before |-> 0,
     gap |-> "first"]

\* autoapply_agent.py:117, the list returned when neither browser nor session exists
UnavailableResults(job_ids) ==
    [k \in 1..Len(job_ids) |-> [job_id |-> job_ids[k], success |-> FALSE]]

\* _check_existing_application: "For now, return False"
_check_existing_application(user_id, job_id) == FALSE

\* Mutant: the handler of the loop's except clause drops the task without a result.
ExceptResultDropped(results, job_id) == results

\* autoapply_agent.py:169-176, the failed result appended by the loop's except clause
ExceptResult(results, job_id) == Append(results, [job_id |-> job_id, success |-> FALSE])

\* Mutant: the result of a task is appended twice.
AppendResultTwice(results, application_result) ==
    Append(Append(results, application_result), application_result)

\* autoapply_agent.py:159, results.append(application_result)
AppendResult(results, application_result) == Append(results, application_result)

\* Mutant: the quota is checked only when the call starts, not before each task.
LimitReachedNever(n) == FALSE

\* autoapply_agent.py:141, the quota check at the head of every iteration
LimitReached(n) == n >= max_applications_per_day

\* Mutant: the counter is incremented for every result, accepted or not.
AfterSubmissionAlways(n, success) == n + 1

\* autoapply_agent.py:162-164, if application_result['success']: ... += 1
AfterSubmission(n, success) == IF success THEN n + 1 ELSE n

InitApply ==
    /\ browser = "None"
    /\ applications_today = 0
    /\ ap = [c \in Dispatchers |-> IdleCall]
    /\ submitted = [p \in UserIds \X JobIds |-> 0]
    /\ submitted_today = 0
    /\ batches = 0

\* initialize(): the HTTP session is created and today's count is read
\* (_get_applications_today returns 0); on any failure browser is left None.
ApInitialize ==
    /\ browser = "None"
    /\ \A c \in Dispatchers : ap[c].pc \in {"idle", "returned", "raised"}
    /\ \/ /\ browser' = "http_session"
          /\ applications_today' = 0
       \/ /\ browser' = "None"
          /\ UNCHANGED applications_today
    /\ UNCHANGED <<ap, submitted, submitted_today, batches>>
    /\ UNCHANGED <<ddVars, dmVars, smVars, supVars, simVars>>

\* Lines 112-136: availability, the quota check at entry, the profile, the start log.
ApStart(c, user_id, job_ids) ==
    /\ ap[c].pc \in {"idle", "returned", "raised"}
    /\ batches < MaxBatches
    /\ batches' = batches + 1
    /\ LET fresh == [IdleCall EXCEPT !.user_id = user_id, !.job_ids = job_ids,
                                     !.before = applications_today]
       IN  IF browser = "None"
           THEN ap' = [ap EXCEPT ![c] = [fresh EXCEPT !.pc = "returned",
                                                     !.results = UnavailableResults(job_ids),
                                                     !.exit = "unavailable"]]
           ELSE IF applications_today >= max_applications_per_day
           THEN ap' = [ap EXCEPT ![c] = [fresh EXCEPT !.pc = "returned",
                                                     !.exit = "limit_at_start"]]
           ELSE \/ /\ user_id \notin KnownUsers
                   /\ ap' = [ap EXCEPT ![c] = [fresh EXCEPT !.pc = "raised",
                                                           !.exit = "no_profile"]]
                \/ ap' = [ap EXCEPT ![c] = [fresh EXCEPT !.pc = "raised",
                                                        !.exit = "store_failed"]]
                \/ /\ user_id \in KnownUsers
                   /\ ap' = [ap EXCEPT ![c] = [fresh EXCEPT !.pc = "loop"]]
    /\ UNCHANGED <<browser, applications_today, submitted, submitted_today>>
    /\ UNCHANGED <<ddVars, dmVars, smVars, supVars, simVars>>

\* Lines 138-158: the head of one iteration up to the await of the submission.
ApIter(c) ==
    /\ ap[c].pc = "loop"
    /\ ap[c].i <= Len(ap[c].job_ids)
    /\ ~LimitReached(applications_today)
    /\ LET job_id == ap[c].job_ids[ap[c].i]
       IN  \/ \* _get_job_details returned None (no row, or the store raised): continue
              ap' = [ap EXCEPT ![c].i = @ + 1]
           \/ IF _check_existing_application(ap[c].user_id, job_id)
              THEN ap' = [ap EXCEPT ![c].i = @ + 1, ![c].fetched = Append(@, job_id)]
              ELSE ap' = [ap EXCEPT ![c].pc = "applying", ![c].fetched = Append(@, job_id)]
    /\ UNCHANGED <<browser, applications_today, submitted, submitted_today, batches>>
    /\ UNCHANGED <<ddVars, dmVars, smVars, supVars, simVars>>

\* Lines 158-176: _apply_to_job returns a result or raises.
ApApplyDone(c) ==
    /\ ap[c].pc = "applying"
    /\ LET job_id == ap[c].job_ids[ap[c].i]
           key == <<ap[c].user_id, job_id>>
       IN  \/ \* the target accepted the submission
              /\ ap' = [ap EXCEPT ![c].results =
                                      AppendResult(@, [job_id |-> job_id, success |-> TRUE]),
                                  ![c].gap = "attempted",
                                  ![c].pc = "delay"]
              /\ applications_today' = AfterSubmission(applications_today, TRUE)
              /\ submitted' = [submitted EXCEPT ![key] = @ + 1]
              /\ submitted_today' = submitted_today + 1
           \/ \* the strategy returned a failed result, or raised inside _apply_to_job's try
              /\ ap' = [ap EXCEPT ![c].results =
                                      AppendResult(@, [job_id |-> job_id, success |-> FALSE]),
                                  ![c].gap = "attempted",
                                  ![c].pc = "delay"]
              /\ applications_today' = AfterSubmission(applications_today, FALSE)
              /\ UNCHANGED <<submitted, submitted_today>>
           \/ \* an exception escaped _apply_to_job (generate_cover_letter, awaited
              \* outside its try block, raised): the except clause, no delay
              /\ ap' = [ap EXCEPT ![c].results = ExceptResult(@, job_id),
                                  ![c].i = @ + 1,
                                  ![c].gap = "attempted",
                                  ![c].pc = "loop"]
              /\ UNCHANGED <<applications_today, submitted, submitted_today>>
    /\ UNCHANGED <<browser, batches>>
    /\ UNCHANGED <<ddVars, dmVars, smVars, supVars, simVars>>

\* Line 167: wait_random_delay(30, 60) is over.
ApDelayDone(c) ==
    /\ ap[c].pc = "delay"
    /\ ap' = [ap EXCEPT ![c].i = @ + 1, ![c].gap = "waited", ![c].pc = "loop"]
    /\ UNCHANGED <<browser, applications_today, submitted, submitted_today, batches>>
    /\ UNCHANGED <<ddVars, dmVars, smVars, supVars, simVars>>

\* Lines 141-143 (break) and 178-190: the completion log and the return.
ApFinish(c) ==
    /\ ap[c].pc = "loop"
    /\ ap[c].i > Len(ap[c].job_ids) \/ LimitReached(applications_today)
    /\ LET how == IF ap[c].i > Len(ap[c].job_ids) THEN "end" ELSE "break"
       IN  \/ ap' = [ap EXCEPT ![c].pc = "returned", ![c].exit = how]
           \/ ap' = [ap EXCEPT ![c].pc = "raised", ![c].exit = "store_failed"]
    /\ UNCHANGED <<browser, applications_today, submitted, submitted_today, batches>>
    /\ UNCHANGED <<ddVars, dmVars, smVars, supVars, simVars>>

(***************************************************************************)
(* The choice of the submission strategy.  An apply_url is a sequence of   *)
(* pieces of text, so that 'mailto:' in apply_url is a search.             *)
(***************************************************************************)
SourcePool == {"linkedin", "indeed", "internshala", "naukri", "glassdoor", "unknown"}

UrlPool ==
    { <<>>,
      <<"mailto:", "hr@x">>,
      <<"mailto:", "jobs@y">>,
      <<"https://", "x">>,
      <<"https://", "linkedin.com">> }

\* self.browser of a dispatcher that can apply: the marker set by initialize
\* (line 61) or the Browser launched by _init_playwright (line 79).
ModePool == {"http_session", "Browser"}

\* piece in text
Contains(text, piece) == \E k \in 1..Len(text) : text[k] = piece

\* autoapply_agent.py:41-48, the keys of self.application_handlers
application_handlers == {"linkedin", "indeed", "internshala", "email", "form", "http_form"}

\* _determine_application_method, lines 225-245
_determine_application_method(mode, job) ==
    IF mode = "http_session"
    THEN IF Contains(job.apply_url, "mailto:") THEN "email" ELSE "http_form"
    ELSE IF job.source \in {"linkedin", "indeed", "internshala"} THEN job.source
    ELSE IF Contains(job.apply_url, "mailto:") THEN "email"
    ELSE IF job.apply_url # <<>> THEN "form"
    ELSE "manual"

\* _apply_to_job, lines 205-210: the handler of the method, or _apply_generic
HandlerOf(method) == IF method \in application_handlers THEN method ELSE "_apply_generic"

MethodIdle ==
    /\ dm_job = [source |-> "unknown", apply_url |-> <<>>]
    /\ dm_method = "none"
    /\ dm_handler = "none"
    /\ dm_pc = "idle"

\* A dispatcher that can apply is handed a listing.
InitMethod ==
    /\ dm_job \in [source : SourcePool, apply_url : UrlPool]
    /\ dm_method = "none"
    /\ dm_handler = "none"
    /\ dm_pc = "ready"
    /\ browser \in ModePool
    /\ applications_today = 0
    /\ ap = [c \in Dispatchers |-> IdleCall]
    /\ submitted = [p \in UserIds \X JobIds |-> 0]
    /\ submitted_today = 0
    /\ batches = 0

\* _apply_to_job, line 196
DetermineApplicationMethod ==
    /\ dm_pc = "ready"
    /\ dm_method' = _determine_application_method(browser, dm_job)
    /\ dm_pc' = "determined"
    /\ UNCHANGED <<dm_job, dm_handler>>
    /\ UNCHANGED <<ddVars, smVars, apVars, supVars, simVars>>

\* _apply_to_job, lines 203-210
ApplyToJobDispatch ==
    /\ dm_pc = "determined"
    /\ dm_handler' = HandlerOf(dm_method)
    /\ dm_pc' = "dispatched"
    /\ UNCHANGED <<dm_job, dm_method>>
    /\ UNCHANGED <<ddVars, smVars, apVars, supVars, simVars>>

(***************************************************************************)
(* calculate_skill_match and find_partial_skill_match (utils/matching.py). *)
(* A number the code computes by a division is held as a fraction          *)
(* [num, den] with den > 0.                                                *)
(***************************************************************************)
\* Bound: longest user_skills list.
MaxUserSkills == 2

\* Bound: longest required_skills list.
MaxRequiredSkills == 3

python == <<"p", "y", "t", "h", "o", "n">>

Python == <<"P", "y", "t", "h", "o", "n">>

react == <<"r", "e", "a", "c", "t">>

javascript == <<"j", "a", "v", "a", "s", "c", "r", "i", "p", "t">>

java == <<"j", "a", "v", "a">>

docker == <<"d", "o", "c", "k", "e", "r">>

SkillPool == {python, Python, react, javascript, java, docker}

\* The skills candidates list, and the skills listings require.
UserSkillPool == {python, Python, react, java}

RequiredSkillPool == {python, Python, react, javascript, docker}

UserSkillLists == UNION { [1..n -> UserSkillPool] : n \in 0..MaxUserSkills }

RequiredSkillLists == UNION { [1..n -> RequiredSkillPool] : n \in 0..MaxRequiredSkills }

\* skill_relationships, lines 312-323, cut down to the skills of SkillPool: of
\* the ten entries only 'javascript' and 'react' list a skill of the pool, and
\* 'python' and 'java' list none.
skill_relationships(skill) ==
    IF skill = javascript THEN {react}
    ELSE IF skill = react THEN {javascript}
    ELSE {}

\* a in b, for two strings
IsSubstring(a, b) ==
    \E k \in 0..(Len(b) - Len(a)) : SubSeq(b, k + 1, k + Len(a)) = a

\* Lines 326-339: the tests one user skill goes through
PartialTest(required_skill, user_skill) ==
    \/ required_skill \in skill_relationships(Lower(user_skill))
    \/ Lower(user_skill) \in skill_relationships(required_skill)
    \/ /\ Len(required_skill) > 3
       /\ Len(user_skill) > 3
       /\ \/ IsSubstring(required_skill, Lower(user_skill))
          \/ IsSubstring(Lower(user_skill), required_skill)

\* Mutant: only the substring test, without the relationship mappings.
find_partial_substring_only(required_skill, user_skills) ==
    LET hits == { k \in 1..Len(user_skills) :
                     /\ Len(required_skill) > 3
                     /\ Len(user_skills[k]) > 3
                     /\ \/ IsSubstring(required_skill, Lower(user_skills[k]))
                        \/ IsSubstring(Lower(user_skills[k]), required_skill) }
    IN  IF hits = {} THEN <<>>
        ELSE user_skills[CHOOSE k \in hits : \A j \in hits : k <= j]

\* find_partial_skill_match: the first user skill that passes a test, or None
\* (the empty string here: no skill is empty).
find_partial_skill_match(required_skill, user_skills) ==
    LET hits == { k \in 1..Len(user_skills) : PartialTest(required_skill, user_skills[k]) }
    IN  IF hits = {} THEN <<>>
        ELSE user_skills[CHOOSE k \in hits : \A j \in hits : k <= j]

\* Mutant: the user's skills are compared as written, not lower-cased.
LowerAllAsWritten(skills) == skills

\* Line 267: [skill.lower() for skill in user_skills]
LowerAll(skills) == [k \in 1..Len(skills) |-> Lower(skills[k])]

InList(x, list) == \E k \in 1..Len(list) : list[k] = x

\* Lines 274-289, the loop over required_skills; acc holds the three lists.
RECURSIVE MatchLoop(_, _, _)
MatchLoop(required_skills, user_skills_lower, acc) ==
    IF required_skills = <<>> THEN acc
    ELSE LET req_skill == Head(required_skills)
             req_skill_lower == Lower(req_skill)
             partial_match == find_partial_skill_match(req_skill_lower, user_skills_lower)
         IN  IF InList(req_skill_lower, user_skills_lower)
             THEN MatchLoop(Tail(required_skills), user_skills_lower,
                            [acc EXCEPT !.exact_matches = Append(@, req_skill)])
             ELSE IF partial_match # <<>>
             THEN MatchLoop(Tail(required_skills), user_skills_lower,
                            [acc EXCEPT !.partial_matches =
                                Append(@, [required_skill |-> req_skill,
                                           user_skill |-> partial_match])])
             ELSE MatchLoop(Tail(required_skills), user_skills_lower,
                            [acc EXCEPT !.missing_skills = Append(@, req_skill)])

\* Mutant: a partial match weighs more than an exact one.
WeightedPartialHeavier(exact_count, partial_count) == 2 * exact_count + 3 * partial_count

\* Lines 293-296: len(exact) * 1.0 + len(partial) * 0.5, counted in halves
Weighted(exact_count, partial_count) == 2 * exact_count + partial_count

\* min(100, match_score * 100), line 297
Percentage(match_score) ==
    IF 100 * match_score.num > 100 * match_score.den
    THEN [num |-> 100, den |-> 1]
    ELSE [num |-> 100 * match_score.num, den |-> match_score.den]

\* Mutant: a skill required twice is counted once.
TotalRequiredDistinct(required_skills) ==
    IF required_skills # <<>>
    THEN Cardinality({ required_skills[k] : k \in 1..Len(required_skills) })
    ELSE 1

\* Line 292: len(required_skills) if required_skills else 1
TotalRequired(required_skills) ==
    IF required_skills # <<>> THEN Len(required_skills) ELSE 1

\* calculate_skill_match, lines 265-305
calculate_skill_match(user_skills, required_skills) ==
    LET lists == MatchLoop(required_skills, LowerAll(user_skills),
                           [exact_matches |-> <<>>, partial_matches |-> <<>>,
                            missing_skills |-> <<>>])
        total_required == TotalRequired(required_skills)
        match_score == [num |-> Weighted(Len(lists.exact_matches),
                                         Len(lists.partial_matches)),
                        den |-> 2 * total_required]
    IN  [exact_matches |-> lists.exact_matches,
         partial_matches |-> lists.partial_matches,
         missing_skills |-> lists.missing_skills,
         match_percentage |-> Percentage(match_score),
         total_required |-> total_required]

NoMatch ==
    [exact_matches |-> <<>>, partial_matches |-> <<>>, missing_skills |-> <<>>,
     match_percentage |-> [num |-> 0, den |-> 1], total_required |-> 1]

MatchIdle ==
    /\ sm_user = <<>>
    /\ sm_required = <<>>
    /\ sm_out = NoMatch
    /\ sm_pc = "idle"

InitMatch ==
    /\ sm_user \in UserSkillLists
    /\ sm_required \in RequiredSkillLists
    /\ sm_out = NoMatch
    /\ sm_pc = "ready"

CalculateSkillMatch ==
    /\ sm_pc = "ready"
    /\ sm_out' = calculate_skill_match(sm_user, sm_required)
    /\ sm_pc' = "done"
    /\ UNCHANGED <<sm_user, sm_required>>
    /\ UNCHANGED <<ddVars, dmVars, apVars, supVars, simVars>>

\* The local day ends.  No code of the dispatcher reads the date: the counter
\* is written by __init__ (line 37), initialize (line 66) and the increment of
\* line 164 only, so midnight changes nothing the dispatcher holds.
Midnight ==
    /\ \A c \in Dispatchers : ap[c].pc \in {"idle", "returned", "raised"}
    /\ submitted_today' = 0
    /\ UNCHANGED <<browser, applications_today, ap, submitted, batches>>
    /\ UNCHANGED <<ddVars, dmVars, smVars, supVars, simVars>>

(***************************************************************************)
(* SupervisorAgent.  Tasks are scheduled cooperatively: a step runs from   *)
(* one await that suspends to the next.  A task is a caller of the public  *)
(* operations or an auto-mode loop created by start_auto_mode.             *)
(***************************************************************************)
\* Bound: number of auto-mode loop tasks start_auto_mode may create.
MaxLoops == 2

\* Bound: last hour of the clock.
MaxTime == 1

Callers == {1, 2}

LoopIds == 1..MaxLoops

Tasks == ({"caller"} \X Callers) \cup ({"loop"} \X LoopIds)

None == -1

\* supervisor_agent.py:38-44; scoring_threshold 0.7 is held in tenths
DefaultConfig ==
    [scraping_interval_hours |-> 24, scoring_threshold |-> 7,
     max_auto_applications |-> 5, auto_apply_enabled |-> FALSE,
     follow_up_interval_days |-> 7]

\* The locals of a trigger_job_search call: its position, the result of each
\* phase ("none" before the phase and for a phase not executed), and what the
\* Apply phase handed to the dispatcher.  before is history: the configuration
\* a pending update_configuration call of the task found when it was made.
NoRun == [pc |-> "none", scraping |-> "none", scoring |-> "none",
          autoapply |-> "none", tracking |-> "none",
          invoked |-> FALSE, dispatched |-> <<>>, before |-> DefaultConfig]

\* The payload of a return that carries no search result.
NoResult == [total_found |-> 0, timestamp |-> <<0, 0>>, cache_key |-> <<>>,
             search_params |-> <<>>]

\* The argument of a return that does not report it.
NoArg == <<>>

NoRet == [task |-> <<"none", 0>>, op |-> "none", status |-> "none",
          phases |-> NoRun, payload |-> NoResult, arg |-> NoArg]

Ret(t, op, status) ==
    [task |-> t, op |-> op, status |-> status, phases |-> NoRun,
     payload |-> NoResult, arg |-> NoArg]

\* supervisor_agent.py:260-263
valid_keys == {"scraping_interval_hours", "scoring_threshold", "max_auto_applications",
               "auto_apply_enabled", "follow_up_interval_days"}

\* The updates callers pass to update_configuration.
UpdatePool ==
    { [auto_apply_enabled |-> TRUE],
      [scraping_interval_hours |-> 1, max_auto_applications |-> 1],
      [auto_apply_enabled |-> TRUE, max_applications_per_day |-> 5],
      [scoring_threshold |-> 9, bogus |-> 1],
      [bogus |-> 1] }

\* dict.update
DictUpdate(d, u) ==
    [k \in (DOMAIN d) \cup (DOMAIN u) |-> IF k \in DOMAIN u THEN u[k] ELSE d[k]]

\* Mutant: the recognized keys of a rejected update are applied before it is rejected.
ApplyRejectedPartial(d, u) ==
    [k \in DOMAIN d |-> IF k \in DOMAIN u THEN u[k] ELSE d[k]]

\* supervisor_agent.py:265-270, the configuration after a rejected update
ApplyRejected(d, u) == d

\* Mutant: every iteration of the loop finds a search due.
_should_run_always == TRUE

\* _should_run_scheduled_scraping, lines 475-481
_should_run_scheduled_scraping ==
    \/ last_scraping_time = None
    \/ now - last_scraping_time >= config.scraping_interval_hours

InRun(t) == run[t].pc # "none"

InitSupervisor ==
    /\ workflow_running = FALSE
    /\ auto_mode_enabled = FALSE
    /\ last_scraping_time = None
    /\ config = DefaultConfig
    /\ call = [c \in Callers |-> "idle"]
    /\ loop = [l \in LoopIds |-> [pc |-> "none", wake |-> 0]]
    /\ run = [t \in Tasks |-> NoRun]
    /\ now = 0
    /\ ret = NoRet

Tick ==
    /\ now < MaxTime
    /\ now' = now + 1
    /\ ret' = NoRet
    /\ UNCHANGED <<workflow_running, auto_mode_enabled, last_scraping_time, config,
                   call, loop, run>>
    /\ UNCHANGED <<ddVars, dmVars, smVars, apVars, simVars>>

\* Mutant: the call sets the flag without testing it first.
BusyNever == FALSE

\* supervisor_agent.py:90, the test that rejects a trigger
Busy == workflow_running

\* Lines 90-107 for a caller: rejected as busy, or accepted up to the first await.
TriggerJobSearch(c) ==
    /\ call[c] = "idle"
    /\ IF Busy
       THEN /\ ret' = Ret(<<"caller", c>>, "trigger_job_search", "busy")
            /\ UNCHANGED <<workflow_running, call, run>>
       ELSE /\ workflow_running' = TRUE
            /\ call' = [call EXCEPT ![c] = "trigger_job_search"]
            /\ run' = [run EXCEPT ![<<"caller", c>>].pc = "log_start"]
            /\ ret' = NoRet
    /\ UNCHANGED <<auto_mode_enabled, last_scraping_time, config, loop, now>>
    /\ UNCHANGED <<ddVars, dmVars, smVars, apVars, simVars>>

\* Mutant: the flag is reset on the successful path only (no finally clause).
FlagAfterRunNoFinally(status) == status # "completed"

\* supervisor_agent.py:160-161, finally: self.workflow_running = False
FlagAfterRun(status) == FALSE

\* The return of an accepted trigger_job_search call of task t, through finally.
\* A caller gets the result; a loop goes on to asyncio.sleep(3600), also when
\* the call raised (the loop's except clause sleeps as well).
RunEnds(t, status) ==
    /\ workflow_running' = FlagAfterRun(status)
    /\ ret' = [task |-> t, op |-> "trigger_job_search", status |-> status,
               phases |-> [run[t] EXCEPT !.pc = "none"], payload |-> NoResult,
               arg |-> NoArg]
    /\ run' = [run EXCEPT ![t] = NoRun]
    /\ IF t[1] = "caller"
       THEN /\ call' = [call EXCEPT ![t[2]] = "idle"]
            /\ UNCHANGED loop
       ELSE /\ loop' = [loop EXCEPT ![t[2]] = [pc |-> "sleeping", wake |-> now + 1]]
            /\ UNCHANGED call

\* Lines 102-107: the workflow_start log returns or raises.
RunLogStart(t) ==
    /\ run[t].pc = "log_start"
    /\ \/ run' = [run EXCEPT ![t].pc = "scraping"]
       \/ run' = [run EXCEPT ![t].pc = "log_error"]
    /\ ret' = NoRet
    /\ UNCHANGED <<workflow_running, auto_mode_enabled, last_scraping_time, config,
                   call, loop, now>>
    /\ UNCHANGED <<ddVars, dmVars, smVars, apVars, simVars>>

\* Mutant: after the Search phase the run goes straight to the Track phase.
NextPhaseSkipsScoring(phase) ==
    CASE phase = "scraping" -> "tracking"
      [] phase = "scoring" -> "autoapply"
      [] phase = "autoapply" -> "tracking"
      [] phase = "tracking" -> "log_complete"

\* supervisor_agent.py:109-121, the order of the awaits of the four phases
NextPhase(phase) ==
    CASE phase = "scraping" -> "scoring"
      [] phase = "scoring" -> "autoapply"
      [] phase = "autoapply" -> "tracking"
      [] phase = "tracking" -> "log_complete"

\* A phase returned its result without raising.
PhaseReturned(r, phase) == [r EXCEPT ![phase] = "ok", !.pc = NextPhase(phase)]

\* Mutant: an exception inside a phase reaches the except clause of
\* trigger_job_search, which abandons the phases and logs the error.
PhaseRaisedEscapes(r, phase) == [NoRun EXCEPT !.pc = "log_error"]

\* supervisor_agent.py:326-332, 364-370, 410-417, 439-445: the except clause of
\* a phase returns {success: False, error}; the run goes on with the next phase.
PhaseRaised(r, phase) == [r EXCEPT ![phase] = "failed", !.pc = NextPhase(phase)]

Min(a, b) == IF a <= b THEN a ELSE b

\* Python's seq[:n]: the first n items, and for a negative n all but the last -n.
SliceTo(seq, n) ==
    IF n >= 0 THEN SubSeq(seq, 1, Min(n, Len(seq)))
    ELSE SubSeq(seq, 1, IF Len(seq) + n > 0 THEN Len(seq) + n ELSE 0)

\* supervisor_agent.py:380, top_job_ids = []  ("would be populated from scoring results")
top_job_ids == <<>>

\* supervisor_agent.py:387-388
job_ids_to_apply(top, cfg) == SliceTo(top, Min(Len(top), cfg.max_auto_applications))

\* _execute_autoapply_phase, lines 371-417: with no top job ids it returns success
\* at once; otherwise it hands job_ids_to_apply to the dispatcher.
_execute_autoapply_phase(r) ==
    IF top_job_ids = <<>>
    THEN [r EXCEPT !.autoapply = "ok", !.pc = NextPhase("autoapply")]
    ELSE [r EXCEPT !.autoapply = "ok", !.pc = NextPhase("autoapply"),
                   !.invoked = TRUE,
                   !.dispatched = job_ids_to_apply(top_job_ids, config)]

\* Mutant: the Apply phase is executed whatever the configuration says.
ApplyEnabledAlways(cfg) == TRUE

\* supervisor_agent.py:117, if self.config.get('auto_apply_enabled', False)
ApplyEnabled(cfg) ==
    IF "auto_apply_enabled" \in DOMAIN cfg THEN cfg.auto_apply_enabled ELSE FALSE

\* Lines 115-118: autoapply_result stays None unless auto-apply is enabled.
AutoApplyStep(r) ==
    IF r.pc # "autoapply" THEN r
    ELSE IF ApplyEnabled(config) THEN _execute_autoapply_phase(r)
    ELSE [r EXCEPT !.pc = NextPhase("autoapply")]

\* Line 110, _execute_scraping_phase: the scraper returned, or raised and the
\* phase captured it.
RunScrapingDone(t) ==
    /\ run[t].pc = "scraping"
    /\ \/ /\ run' = [run EXCEPT ![t] = PhaseReturned(@, "scraping")]
          /\ last_scraping_time' = now
       \/ /\ run' = [run EXCEPT ![t] = PhaseRaised(@, "scraping")]
          /\ UNCHANGED last_scraping_time
    /\ ret' = NoRet
    /\ UNCHANGED <<workflow_running, auto_mode_enabled, config, call, loop, now>>
    /\ UNCHANGED <<ddVars, dmVars, smVars, apVars, simVars>>

\* Lines 113-118: _execute_scoring_phase returns or captures its exception;
\* then, if auto_apply_enabled, _execute_autoapply_phase, which finds
\* top_job_ids empty and returns without suspending.
RunScoringDone(t) ==
    /\ run[t].pc = "scoring"
    /\ \/ run' = [run EXCEPT ![t] = AutoApplyStep(PhaseReturned(@, "scoring"))]
       \/ run' = [run EXCEPT ![t] = AutoApplyStep(PhaseRaised(@, "scoring"))]
    /\ ret' = NoRet
    /\ UNCHANGED <<workflow_running, auto_mode_enabled, last_scraping_time, config,
                   call, loop, now>>
    /\ UNCHANGED <<ddVars, dmVars, smVars, apVars, simVars>>

\* Line 121, _execute_tracking_phase; then the summary and the await of the
\* workflow_complete log.
RunTrackingDone(t) ==
    /\ run[t].pc = "tracking"
    /\ \/ run' = [run EXCEPT ![t] = PhaseReturned(@, "tracking")]
       \/ run' = [run EXCEPT ![t] = PhaseRaised(@, "tracking")]
    /\ ret' = NoRet
    /\ UNCHANGED <<workflow_running, auto_mode_enabled, last_scraping_time, config,
                   call, loop, now>>
    /\ UNCHANGED <<ddVars, dmVars, smVars, apVars, simVars>>

\* Lines 136-143: the workflow_complete log returns (return workflow_result) or
\* raises (the except clause, which awaits the workflow_error log).
RunLogComplete(t) ==
    /\ run[t].pc = "log_complete"
    /\ \/ RunEnds(t, "completed")
       \/ /\ run' = [run EXCEPT ![t] = [NoRun EXCEPT !.pc = "log_error"]]
          /\ ret' = NoRet
          /\ UNCHANGED <<workflow_running, call, loop>>
    /\ UNCHANGED <<auto_mode_enabled, last_scraping_time, config, now>>
    /\ UNCHANGED <<ddVars, dmVars, smVars, apVars, simVars>>

\* Lines 145-161: the workflow_error log returns (the failed outcome is returned)
\* or raises (the exception leaves trigger_job_search); finally runs in both.
RunLogError(t) ==
    /\ run[t].pc = "log_error"
    /\ \/ RunEnds(t, "failed")
       \/ RunEnds(t, "raised")
    /\ UNCHANGED <<auto_mode_enabled, last_scraping_time, config, now>>
    /\ UNCHANGED <<ddVars, dmVars, smVars, apVars, simVars>>

\* Mutant: the loop never looks at the flag again once it is running.
LoopGoesOnRegardless == TRUE

\* supervisor_agent.py:451, while self.auto_mode_enabled
LoopGoesOn == auto_mode_enabled

\* _auto_mode_loop, one pass: from the task's first step or the end of its sleep
\* to its next suspension.
AutoModeLoop(l) ==
    /\ \/ loop[l].pc = "created"
       \/ loop[l].pc = "sleeping" /\ now >= loop[l].wake
    /\ IF ~LoopGoesOn
       THEN /\ loop' = [loop EXCEPT ![l] = [pc |-> "done", wake |-> 0]]
            /\ ret' = NoRet
            /\ UNCHANGED <<workflow_running, run>>
       ELSE IF ~_should_run_scheduled_scraping
       THEN /\ loop' = [loop EXCEPT ![l] = [pc |-> "sleeping", wake |-> now + 1]]
            /\ ret' = NoRet
            /\ UNCHANGED <<workflow_running, run>>
       ELSE IF Busy
       THEN /\ loop' = [loop EXCEPT ![l] = [pc |-> "sleeping", wake |-> now + 1]]
            /\ ret' = Ret(<<"loop", l>>, "trigger_job_search", "busy")
            /\ UNCHANGED <<workflow_running, run>>
       ELSE /\ workflow_running' = TRUE
            /\ loop' = [loop EXCEPT ![l] = [pc |-> "trigger_job_search", wake |-> 0]]
            /\ run' = [run EXCEPT ![<<"loop", l>>].pc = "log_start"]
            /\ ret' = NoRet
    /\ UNCHANGED <<auto_mode_enabled, last_scraping_time, config, call, now>>
    /\ UNCHANGED <<ddVars, dmVars, smVars, apVars, simVars>>

\* start_auto_mode up to its await of the auto_mode_start log.
StartAutoMode(c) ==
    /\ call[c] = "idle"
    /\ \E l \in LoopIds :
          /\ loop[l].pc = "none"
          /\ \A k \in LoopIds : k < l => loop[k].pc # "none"
          /\ loop' = [loop EXCEPT ![l].pc = "created"]
    /\ auto_mode_enabled' = TRUE
    /\ call' = [call EXCEPT ![c] = "start_auto_mode"]
    /\ ret' = NoRet
    /\ UNCHANGED <<workflow_running, last_scraping_time, config, run, now>>
    /\ UNCHANGED <<ddVars, dmVars, smVars, apVars, simVars>>

\* The log returned (success) or raised (the except clause returns a failure).
StartAutoModeReturn(c) ==
    /\ call[c] = "start_auto_mode"
    /\ call' = [call EXCEPT ![c] = "idle"]
    /\ \E st \in {"started", "failed"} : ret' = Ret(<<"caller", c>>, "start_auto_mode", st)
    /\ UNCHANGED <<workflow_running, auto_mode_enabled, last_scraping_time, config,
                   loop, run, now>>
    /\ UNCHANGED <<ddVars, dmVars, smVars, apVars, simVars>>

\* stop_auto_mode up to its await of the auto_mode_stop log: only the flag is
\* cleared; the loop task is neither cancelled nor awaited.
StopAutoMode(c) ==
    /\ call[c] = "idle"
    /\ auto_mode_enabled' = FALSE
    /\ call' = [call EXCEPT ![c] = "stop_auto_mode"]
    /\ ret' = NoRet
    /\ UNCHANGED <<workflow_running, last_scraping_time, config, loop, run, now>>
    /\ UNCHANGED <<ddVars, dmVars, smVars, apVars, simVars>>

StopAutoModeReturn(c) ==
    /\ call[c] = "stop_auto_mode"
    /\ call' = [call EXCEPT ![c] = "idle"]
    /\ \E st \in {"stopped", "failed"} : ret' = Ret(<<"caller", c>>, "stop_auto_mode", st)
    /\ UNCHANGED <<workflow_running, auto_mode_enabled, last_scraping_time, config,
                   loop, run, now>>
    /\ UNCHANGED <<ddVars, dmVars, smVars, apVars, simVars>>

\* get_system_status, lines 213-254: no await; the report is built from the
\* fields as they are, or the except clause returns an error map.
GetSystemStatus(c) ==
    /\ call[c] = "idle"
    /\ \/ ret' = [Ret(<<"caller", c>>, "get_system_status", "ok") EXCEPT
                     !.payload = [auto_mode_enabled |-> auto_mode_enabled,
                                  workflow_running |-> workflow_running,
                                  last_scraping_time |-> last_scraping_time]]
       \/ ret' = Ret(<<"caller", c>>, "get_system_status", "error")
    /\ UNCHANGED <<workflow_running, auto_mode_enabled, last_scraping_time, config,
                   call, loop, run, now>>
    /\ UNCHANGED <<ddVars, dmVars, smVars, apVars, simVars>>

\* update_configuration up to its return (an unrecognized key) or to its await
\* of the config_update log.
UpdateConfiguration(c, u) ==
    /\ call[c] = "idle"
    /\ IF (DOMAIN u) \ valid_keys # {}
       THEN /\ config' = ApplyRejected(config, u)
            /\ ret' = [Ret(<<"caller", c>>, "update_configuration", "rejected")
                          EXCEPT !.arg = u]
            /\ UNCHANGED <<call, run>>
       ELSE /\ config' = DictUpdate(config, u)
            /\ call' = [call EXCEPT ![c] = "update_configuration"]
            /\ run' = [run EXCEPT ![<<"caller", c>>].before = config]
            /\ ret' = NoRet
    /\ UNCHANGED <<workflow_running, auto_mode_enabled, last_scraping_time,
                   loop, now>>
    /\ UNCHANGED <<ddVars, dmVars, smVars, apVars, simVars>>

UpdateConfigurationReturn(c) ==
    /\ call[c] = "update_configuration"
    /\ call' = [call EXCEPT ![c] = "idle"]
    /\ run' = [run EXCEPT ![<<"caller", c>>] = NoRun]
    /\ \E st \in {"updated", "failed"} :
          ret' = Ret(<<"caller", c>>, "update_configuration", st)
    /\ UNCHANGED <<workflow_running, auto_mode_enabled, last_scraping_time, config,
                   loop, now>>
    /\ UNCHANGED <<ddVars, dmVars, smVars, apVars, simVars>>

(***************************************************************************)
(* SimpleSupervisorAgent: the result cache and the cancellable auto-search *)
(* loop.  The clock counts half hours, so that an entry can be younger     *)
(* than, exactly as old as, and older than max_cache_age.                  *)
(***************************************************************************)
\* Bound: last tick of the clock.
MaxClock == 3

\* simple_supervisor_agent.py:35, timedelta(hours=1), in half hours
max_cache_age == 2

\* simple_supervisor_agent.py:313, search_interval = 3600 seconds, in half hours
search_interval == 2

\* datetime.isoformat(): the clock reading written as <<hours, minutes>>
isoformat(t) == <<t \div 2, (t % 2) * 30>>

\* datetime.fromisoformat()
fromisoformat(ts) == ts[1] * 2 + ts[2] \div 30

Digits == <<"0", "1", "2", "3", "4", "5", "6", "7", "8", "9">>

\* str() of a natural number
RECURSIVE str(_)
str(n) == IF n < 10 THEN <<Digits[n + 1]>> ELSE str(n \div 10) \o <<Digits[(n % 10) + 1]>>

\* The search_params callers pass; max_results None stands for an absent key.
SearchPool ==
    { [keywords |-> <<"A">>, location |-> <<"a">>, max_results |-> None],
      [keywords |-> <<"a", " ">>, location |-> <<"a">>, max_results |-> 50],
      [keywords |-> <<"b">>, location |-> <<"a">>, max_results |-> 5] }

\* Queries whose keywords or location hold the character the key is joined with.
JoinedPool ==
    { [keywords |-> <<"a", "|", "a">>, location |-> <<"a">>, max_results |-> None],
      [keywords |-> <<"a">>, location |-> <<"a", "|", "a">>, max_results |-> None],
      [keywords |-> <<"A">>, location |-> <<"a", "|", "a">>, max_results |-> 50],
      [keywords |-> <<"a">>, location |-> <<"a">>, max_results |-> None] }

\* simple_supervisor_agent.py:201-205, the parameters of a loop started without any
DefaultSearch == [keywords |-> <<"A">>, location |-> <<"a">>, max_results |-> None]

\* _create_cache_key
_create_cache_key(search_params) ==
    Strip(Lower(search_params.keywords)) \o <<"|">>
        \o Strip(Lower(search_params.location)) \o <<"|">>
        \o str(IF search_params.max_results = None THEN 50 ELSE search_params.max_results)

\* Mutant: an entry exactly max_cache_age old still counts as valid.
IsCacheValidInclusive(cache_key) ==
    /\ cache_key \in DOMAIN search_results_cache
    /\ clock - fromisoformat(search_results_cache[cache_key].timestamp) <= max_cache_age

\* _is_cache_valid
_is_cache_valid(cache_key) ==
    /\ cache_key \in DOMAIN search_results_cache
    /\ clock - fromisoformat(search_results_cache[cache_key].timestamp) < max_cache_age

NoSearch == [pc |-> "none", key |-> <<>>, found |-> 0, params |-> <<>>]

NoLoop == [pc |-> "none", wake |-> 0, cancel |-> FALSE]

InitSimple ==
    /\ is_auto_mode = FALSE
    /\ auto_task = None
    /\ search_results_cache = <<>>
    /\ last_search_time = None
    /\ s_call = [c \in Callers |-> [pc |-> "idle", awaits |-> None]]
    /\ s_loop = [l \in LoopIds |-> NoLoop]
    /\ search = [t \in Tasks |-> NoSearch]
    /\ clock = 0

SimpleTick ==
    /\ clock < MaxClock
    /\ clock' = clock + 1
    /\ ret' = NoRet
    /\ UNCHANGED <<is_auto_mode, auto_task, search_results_cache, last_search_time,
                   s_call, s_loop, search>>
    /\ UNCHANGED <<ddVars, dmVars, smVars, apVars, supFrame>>

\* What the task does after its trigger_job_search call is over: a caller has
\* its result; the loop awaits asyncio.sleep(search_interval).
SearchOver(t) ==
    IF t[1] = "caller"
    THEN /\ s_call' = [s_call EXCEPT ![t[2]] = [pc |-> "idle", awaits |-> None]]
         /\ UNCHANGED s_loop
    ELSE /\ s_loop' = [s_loop EXCEPT ![t[2]].pc = "sleeping",
                                     ![t[2]].wake = clock + search_interval]
         /\ UNCHANGED s_call

\* Mutant: a cache hit renews the entry it serves.
CacheAfterHitRenewed(cache_key) ==
    [search_results_cache EXCEPT ![cache_key].timestamp = isoformat(clock)]

\* Lines 101-103: the entry is returned, the cache is not written
CacheAfterHit(cache_key) == search_results_cache

\* Mutant: the except clause caches what it returns under the key of the query.
CacheAfterFailureStored(cache_key) ==
    [k \in (DOMAIN search_results_cache) \cup {cache_key} |->
        IF k = cache_key
        THEN [NoResult EXCEPT !.timestamp = isoformat(clock), !.cache_key = cache_key]
        ELSE search_results_cache[k]]

\* Lines 172-179: the except clause returns, the cache is not written
CacheAfterFailure(cache_key) == search_results_cache

\* trigger_job_search, lines 94-107, run by task t: the cached result is
\* returned, or the scraper is called and the task suspends in it.
SearchBegin(t, search_params) ==
    LET cache_key == _create_cache_key(search_params)
    IN  IF _is_cache_valid(cache_key)
        THEN /\ ret' = [task |-> t, op |-> "trigger_job_search", status |-> "cached",
                        phases |-> NoRun, payload |-> search_results_cache[cache_key],
                        arg |-> search_params]
             /\ search_results_cache' = CacheAfterHit(cache_key)
             /\ SearchOver(t)
             /\ UNCHANGED search
        ELSE /\ search' = [search EXCEPT ![t] = [pc |-> "scraping", key |-> cache_key,
                                                 found |-> 0, params |-> search_params]]
             /\ ret' = NoRet
             /\ UNCHANGED search_results_cache
             /\ IF t[1] = "caller"
                THEN /\ s_call' = [s_call EXCEPT ![t[2]].pc = "trigger_job_search"]
                     /\ UNCHANGED s_loop
                ELSE /\ s_loop' = [s_loop EXCEPT ![t[2]].pc = "trigger_job_search"]
                     /\ UNCHANGED s_call

\* Lines 154-170: the result is built with the time of its creation, cached
\* under the key and returned.
SearchStore(t, found) ==
    LET result == [total_found |-> found, timestamp |-> isoformat(clock),
                   cache_key |-> search[t].key, search_params |-> search[t].params]
    IN  /\ search_results_cache' =
               [k \in (DOMAIN search_results_cache) \cup {search[t].key} |->
                    IF k = search[t].key THEN result ELSE search_results_cache[k]]
        /\ last_search_time' = clock
        /\ ret' = [task |-> t, op |-> "trigger_job_search", status |-> "ok",
                   phases |-> NoRun, payload |-> result, arg |-> NoArg]
        /\ search' = [search EXCEPT ![t] = NoSearch]
        /\ SearchOver(t)

\* A task whose cancellation was requested resumes only by CancelledError.
Cancelled(t) == t[1] = "loop" /\ s_loop[t[2]].cancel

SimpleTriggerJobSearch(c, search_params) ==
    /\ s_call[c].pc = "idle"
    /\ SearchBegin(<<"caller", c>>, search_params)
    /\ UNCHANGED <<is_auto_mode, auto_task, last_search_time, clock>>
    /\ UNCHANGED <<ddVars, dmVars, smVars, apVars, supFrame>>

\* Lines 107-134: scrape_jobs returned listings (and save_jobs is awaited), or
\* returned none (the result is stored at once), or raised (lines 172-179).
SimpleScrapeDone(t) ==
    /\ search[t].pc = "scraping"
    /\ ~Cancelled(t)
    /\ \/ /\ search' = [search EXCEPT ![t].pc = "saving", ![t].found = 1]
          /\ ret' = NoRet
          /\ UNCHANGED <<search_results_cache, last_search_time, s_call, s_loop>>
       \/ SearchStore(t, 0)
       \/ /\ ret' = [Ret(t, "trigger_job_search", "failed")
                        EXCEPT !.arg = search[t].params]
          /\ search_results_cache' = CacheAfterFailure(search[t].key)
          /\ search' = [search EXCEPT ![t] = NoSearch]
          /\ SearchOver(t)
          /\ UNCHANGED last_search_time
    /\ UNCHANGED <<is_auto_mode, auto_task, clock>>
    /\ UNCHANGED <<ddVars, dmVars, smVars, apVars, supFrame>>

\* Lines 129-170: save_jobs returned or raised (its exception is only logged).
SimpleSaveDone(t) ==
    /\ search[t].pc = "saving"
    /\ ~Cancelled(t)
    /\ SearchStore(t, search[t].found)
    /\ UNCHANGED <<is_auto_mode, auto_task, clock>>
    /\ UNCHANGED <<ddVars, dmVars, smVars, apVars, supFrame>>

\* start_auto_mode: no await, one step.
SimpleStartAutoMode(c) ==
    /\ s_call[c].pc = "idle"
    /\ IF is_auto_mode
       THEN /\ ret' = Ret(<<"caller", c>>, "start_auto_mode", "already_running")
            /\ UNCHANGED <<is_auto_mode, auto_task, s_loop>>
       ELSE /\ \E l \in LoopIds :
                  /\ s_loop[l].pc = "none"
                  /\ \A k \in LoopIds : k < l => s_loop[k].pc # "none"
                  /\ s_loop' = [s_loop EXCEPT ![l].pc = "created"]
                  /\ auto_task' = l
            /\ is_auto_mode' = TRUE
            /\ ret' = Ret(<<"caller", c>>, "start_auto_mode", "started")
    /\ UNCHANGED <<search_results_cache, last_search_time, s_call, search, clock>>
    /\ UNCHANGED <<ddVars, dmVars, smVars, apVars, supFrame>>

\* stop_auto_mode, lines 236-248: the flag is cleared, the task is cancelled and
\* awaited; awaiting a task that is already done does not suspend.
SimpleStopAutoMode(c) ==
    /\ s_call[c].pc = "idle"
    /\ IF ~is_auto_mode
       THEN /\ ret' = Ret(<<"caller", c>>, "stop_auto_mode", "not_running")
            /\ UNCHANGED <<is_auto_mode, auto_task, s_loop, s_call>>
       ELSE /\ is_auto_mode' = FALSE
            /\ IF auto_task = None
               THEN /\ ret' = Ret(<<"caller", c>>, "stop_auto_mode", "stopped")
                    /\ UNCHANGED <<auto_task, s_loop, s_call>>
               ELSE IF s_loop[auto_task].pc = "done"
               THEN /\ auto_task' = None
                    /\ ret' = Ret(<<"caller", c>>, "stop_auto_mode", "stopped")
                    /\ UNCHANGED <<s_loop, s_call>>
               ELSE /\ s_loop' = [s_loop EXCEPT ![auto_task].cancel = TRUE]
                    /\ s_call' = [s_call EXCEPT ![c] = [pc |-> "stop_auto_mode",
                                                        awaits |-> auto_task]]
                    /\ ret' = NoRet
                    /\ UNCHANGED auto_task
    /\ UNCHANGED <<search_results_cache, last_search_time, search, clock>>
    /\ UNCHANGED <<ddVars, dmVars, smVars, apVars, supFrame>>

\* Lines 248-258: the awaited task is done; auto_task is cleared, "stopped".
SimpleStopAutoModeReturn(c) ==
    /\ s_call[c].pc = "stop_auto_mode"
    /\ s_loop[s_call[c].awaits].pc = "done"
    /\ auto_task' = None
    /\ s_call' = [s_call EXCEPT ![c] = [pc |-> "idle", awaits |-> None]]
    /\ ret' = Ret(<<"caller", c>>, "stop_auto_mode", "stopped")
    /\ UNCHANGED <<is_auto_mode, search_results_cache, last_search_time,
                   s_loop, search, clock>>
    /\ UNCHANGED <<ddVars, dmVars, smVars, apVars, supFrame>>

\* _auto_search_loop, one pass: from the task's first step or the end of its
\* sleep to its next suspension.
AutoSearchLoop(l) ==
    /\ ~s_loop[l].cancel
    /\ \/ s_loop[l].pc = "created"
       \/ s_loop[l].pc = "sleeping" /\ clock >= s_loop[l].wake
    /\ IF ~is_auto_mode
       THEN /\ s_loop' = [s_loop EXCEPT ![l] = [NoLoop EXCEPT !.pc = "done"]]
            /\ ret' = NoRet
            /\ UNCHANGED <<s_call, search, search_results_cache>>
       ELSE SearchBegin(<<"loop", l>>, DefaultSearch)
    /\ UNCHANGED <<is_auto_mode, auto_task, last_search_time, clock>>
    /\ UNCHANGED <<ddVars, dmVars, smVars, apVars, supFrame>>

\* The cancelled task resumes: CancelledError is thrown at the await it is
\* suspended in.  Inside trigger_job_search "except Exception" does not catch
\* it, so the call is abandoned; the loop's "except asyncio.CancelledError"
\* ends the task.
AutoSearchLoopCancelled(l) ==
    /\ s_loop[l].cancel
    /\ s_loop[l].pc \in {"created", "sleeping", "trigger_job_search"}
    /\ s_loop' = [s_loop EXCEPT ![l] = [NoLoop EXCEPT !.pc = "done"]]
    /\ search' = [search EXCEPT ![<<"loop", l>>] = NoSearch]
    /\ ret' = IF s_loop[l].pc = "trigger_job_search"
              THEN Ret(<<"loop", l>>, "trigger_job_search", "cancelled")
              ELSE NoRet
    /\ UNCHANGED <<is_auto_mode, auto_task, search_results_cache, last_search_time,
                   s_call, clock>>
    /\ UNCHANGED <<ddVars, dmVars, smVars, apVars, supFrame>>

(***************************************************************************)
(* The specifications, one per subsystem.                                  *)
(***************************************************************************)
DedupIdle ==
    /\ dd_agent = "SimpleScraperAgent"
    /\ dd_jobs = <<>>
    /\ dd_out = <<>>
    /\ dd_pc = "ready"

Constructed == InitApply /\ InitSupervisor /\ InitSimple

\* A deduplicator is handed a list; the agents are as constructed.
InitDedupCall == InitDedup /\ MethodIdle /\ MatchIdle /\ Constructed

\* No deduplicator is called; the agents are as constructed.
InitIdle == DedupIdle /\ MethodIdle /\ MatchIdle /\ Constructed

\* calculate_skill_match is applied to a pair of lists.
InitMatchCall == DedupIdle /\ MethodIdle /\ InitMatch /\ Constructed

NextMatch == CalculateSkillMatch

SpecMatch == InitMatchCall /\ [][NextMatch]_vars

\* A dispatcher chooses the strategy for one listing.
InitMethodCall == DedupIdle /\ InitMethod /\ MatchIdle /\ InitSupervisor /\ InitSimple

NextMethod ==
    \/ DetermineApplicationMethod
    \/ ApplyToJobDispatch

SpecMethod == InitMethodCall /\ [][NextMethod]_vars

NextDedup ==
    \/ SimpleRemoveDuplicates
    \/ ScraperRemoveDuplicates

SpecDedup == InitDedupCall /\ [][NextDedup]_vars

\* Dispatch calls one after the other: all made by one task.
NextApplySeq ==
    \/ ApInitialize
    \/ \E user_id \in UserIds, job_ids \in JobIdSeqs : ApStart(1, user_id, job_ids)
    \/ ApIter(1)
    \/ ApApplyDone(1)
    \/ ApDelayDone(1)
    \/ ApFinish(1)

SpecApplySeq == InitIdle /\ [][NextApplySeq]_vars

\* The job_ids of the requests served at once.
ConcurrentBatches == { b \in JobIdSeqs : b \in {<<1>>, <<2, 1>>} }

\* Two requests of the /apply route served at once: their dispatch calls, on the
\* one dispatcher, interleave at the awaits.
NextApplyConcurrent ==
    \/ ApInitialize
    \/ \E c \in Dispatchers, user_id \in UserIds, job_ids \in ConcurrentBatches :
          ApStart(c, user_id, job_ids)
    \/ \E c \in Dispatchers : ApIter(c)
    \/ \E c \in Dispatchers : ApApplyDone(c)
    \/ \E c \in Dispatchers : ApDelayDone(c)
    \/ \E c \in Dispatchers : ApFinish(c)

SpecApplyConcurrent == InitIdle /\ [][NextApplyConcurrent]_vars

\* Dispatch calls one after the other, over several days.
NextApplyDays ==
    \/ ApInitialize
    \/ \E user_id \in UserIds, job_ids \in JobIdSeqs : ApStart(1, user_id, job_ids)
    \/ ApIter(1)
    \/ ApApplyDone(1)
    \/ ApDelayDone(1)
    \/ ApFinish(1)
    \/ Midnight

SpecApplyDays == InitIdle /\ [][NextApplyDays]_vars

\* SupervisorAgent: triggers by callers and by auto-mode loops.
NextSupervisor ==
    \/ Tick
    \/ \E c \in Callers : TriggerJobSearch(c)
    \/ \E t \in Tasks : RunLogStart(t)
    \/ \E t \in Tasks : RunScrapingDone(t)
    \/ \E t \in Tasks : RunScoringDone(t)
    \/ \E t \in Tasks : RunTrackingDone(t)
    \/ \E t \in Tasks : RunLogComplete(t)
    \/ \E t \in Tasks : RunLogError(t)
    \/ \E l \in LoopIds : AutoModeLoop(l)
    \/ \E c \in Callers : StartAutoMode(c)
    \/ \E c \in Callers : StartAutoModeReturn(c)
    \/ \E c \in Callers : StopAutoMode(c)
    \/ \E c \in Callers : StopAutoModeReturn(c)

SpecSupervisor == InitIdle /\ [][NextSupervisor]_vars

\* SupervisorAgent: auto-mode started and stopped and the status read while
\* the loops trigger runs.
NextAutoMode ==
    \/ Tick
    \/ \E t \in Tasks : RunLogStart(t)
    \/ \E t \in Tasks : RunScrapingDone(t)
    \/ \E t \in Tasks : RunScoringDone(t)
    \/ \E t \in Tasks : RunTrackingDone(t)
    \/ \E t \in Tasks : RunLogComplete(t)
    \/ \E t \in Tasks : RunLogError(t)
    \/ \E l \in LoopIds : AutoModeLoop(l)
    \/ \E c \in Callers : StartAutoMode(c)
    \/ \E c \in Callers : StartAutoModeReturn(c)
    \/ \E c \in Callers : StopAutoMode(c)
    \/ \E c \in Callers : StopAutoModeReturn(c)
    \/ \E c \in Callers : GetSystemStatus(c)

SpecAutoMode == InitIdle /\ [][NextAutoMode]_vars

\* The update that makes the loop search every hour.
HourlyPool == { [scraping_interval_hours |-> 1] }

\* SupervisorAgent: the auto-mode loops deciding, hour after hour and under
\* either interval, whether a search is due.
NextSchedule ==
    \/ Tick
    \/ \E t \in Tasks : RunLogStart(t)
    \/ \E t \in Tasks : RunScrapingDone(t)
    \/ \E t \in Tasks : RunScoringDone(t)
    \/ \E t \in Tasks : RunTrackingDone(t)
    \/ \E t \in Tasks : RunLogComplete(t)
    \/ \E t \in Tasks : RunLogError(t)
    \/ \E l \in LoopIds : AutoModeLoop(l)
    \/ \E c \in Callers : StartAutoMode(c)
    \/ \E c \in Callers : StartAutoModeReturn(c)
    \/ \E c \in Callers, u \in HourlyPool : UpdateConfiguration(c, u)
    \/ \E c \in Callers : UpdateConfigurationReturn(c)

SpecSchedule == InitIdle /\ [][NextSchedule]_vars

\* SupervisorAgent: configuration updates while callers trigger runs.
NextConfig ==
    \/ \E c \in Callers : TriggerJobSearch(c)
    \/ \E t \in Tasks : RunLogStart(t)
    \/ \E t \in Tasks : RunScrapingDone(t)
    \/ \E t \in Tasks : RunScoringDone(t)
    \/ \E t \in Tasks : RunTrackingDone(t)
    \/ \E t \in Tasks : RunLogComplete(t)
    \/ \E t \in Tasks : RunLogError(t)
    \/ \E c \in Callers, u \in UpdatePool : UpdateConfiguration(c, u)
    \/ \E c \in Callers : UpdateConfigurationReturn(c)

SpecConfig == InitIdle /\ [][NextConfig]_vars

\* SimpleSupervisorAgent: callers searching through the result cache.
NextCache ==
    \/ SimpleTick
    \/ \E c \in Callers, search_params \in SearchPool :
          SimpleTriggerJobSearch(c, search_params)
    \/ \E t \in Tasks : SimpleScrapeDone(t)
    \/ \E t \in Tasks : SimpleSaveDone(t)

SpecCache == InitIdle /\ [][NextCache]_vars

\* SimpleSupervisorAgent: callers searching with queries that hold the joining
\* character.
NextCacheKey ==
    \/ SimpleTick
    \/ \E c \in Callers, search_params \in JoinedPool :
          SimpleTriggerJobSearch(c, search_params)
    \/ \E t \in Tasks : SimpleScrapeDone(t)
    \/ \E t \in Tasks : SimpleSaveDone(t)

SpecCacheKey == InitIdle /\ [][NextCacheKey]_vars

\* SimpleSupervisorAgent: auto-mode started and stopped while the loop and the
\* callers search with the default parameters.
NextSimple ==
    \/ SimpleTick
    \/ \E c \in Callers : SimpleTriggerJobSearch(c, DefaultSearch)
    \/ \E t \in Tasks : SimpleScrapeDone(t)
    \/ \E t \in Tasks : SimpleSaveDone(t)
    \/ \E c \in Callers : SimpleStartAutoMode(c)
    \/ \E c \in Callers : SimpleStopAutoMode(c)
    \/ \E c \in Callers : SimpleStopAutoModeReturn(c)
    \/ \E l \in LoopIds : AutoSearchLoop(l)
    \/ \E l \in LoopIds : AutoSearchLoopCancelled(l)

SpecSimple == InitIdle /\ [][NextSimple]_vars

(***************************************************************************)
(* The claims.                                                             *)
(***************************************************************************)
Running == {t \in Tasks : InRun(t)}

FinishedRun == ret.op = "trigger_job_search" /\ ret.status \in {"completed", "failed", "raised"}

\* C1: in SupervisorAgent at most one trigger_job_search call is inside the
\* workflow at any instant, and a call that found workflow_running set returned
\* "busy" at once: it is in no phase, the flag is still set, and the run that
\* holds it is still in progress.
C1_MutualExclusion ==
    /\ Cardinality(Running) <= 1
    /\ ret.status = "busy" =>
          /\ workflow_running
          /\ ~InRun(ret.task)
          /\ \E t \in Tasks : t # ret.task /\ InRun(t)

\* C1 witness: an auto-mode loop was turned away as busy while a caller's run
\* was in its scoring phase.
C1_Witness ==
    /\ ret.status = "busy"
    /\ ret.task[1] = "loop"
    /\ \E c \in Callers : run[<<"caller", c>>].pc = "scoring"

\* C2: every accepted run of trigger_job_search, whether it completed, failed
\* or let an exception escape, leaves workflow_running False when it returns;
\* the flag is set only while a run is in progress, so a trigger issued when no
\* run is in progress is not rejected as busy.
C2_RunResetsFlag ==
    /\ FinishedRun => ~workflow_running
    /\ workflow_running => Running # {}
    /\ ret.status = "busy" => Running # {}

\* C2 witness: a run whose error log raised too has returned, and the flag is clear.
C2_Witness == ret.op = "trigger_job_search" /\ ret.status = "raised" /\ ~workflow_running

\* C3: with dispatch calls made one after the other, applications_today never
\* exceeds max_applications_per_day, and once it has reached the ceiling no
\* further submission is accepted.
C3_QuotaCeiling ==
    [][/\ applications_today <= max_applications_per_day
       /\ applications_today' <= max_applications_per_day
       /\ applications_today >= max_applications_per_day => submitted' = submitted]_vars

\* C3 witness: a call made with the quota used up returned at once, with tasks left.
C3_Witness ==
    /\ applications_today = max_applications_per_day
    /\ ap[1].pc = "returned"
    /\ ap[1].exit = "limit_at_start"
    /\ ap[1].job_ids # <<>>

JobsOf(results) == [k \in 1..Len(results) |-> results[k].job_id]

Age(result) == clock - fromisoformat(result.timestamp)

\* C5: in SimpleSupervisorAgent a search whose key has an entry younger than
\* max_cache_age returns that entry as stored, starts no scrape and leaves the
\* cache alone; a scrape starts only for a key with no entry or an entry at
\* least max_cache_age old; and a search that produced a result stores it
\* under its key with the time of its creation.
C5_CacheTtl ==
    [][/\ ret'.status = "cached" =>
             LET key == _create_cache_key(ret'.arg)
             IN  /\ key \in DOMAIN search_results_cache
                 /\ ret'.payload = search_results_cache[key]
                 /\ Age(search_results_cache[key]) < max_cache_age
                 /\ search_results_cache' = search_results_cache
                 /\ search' = search
       /\ \A t \in Tasks :
             search[t].pc = "none" /\ search'[t].pc = "scraping" =>
                LET key == search'[t].key
                IN  \/ key \notin DOMAIN search_results_cache
                    \/ Age(search_results_cache[key]) >= max_cache_age
       /\ ret'.status = "ok" =>
             /\ search[ret'.task].key \in DOMAIN search_results_cache'
             /\ search_results_cache'[search[ret'.task].key] = ret'.payload
             /\ fromisoformat(ret'.payload.timestamp) = clock]_vars

\* C5 witness: a cached result was returned in the last half hour of its validity.
C5_Witness ==
    /\ ret.status = "cached"
    /\ Age(ret.payload) = max_cache_age - 1

\* C6: an update with an unrecognized key is rejected and leaves every
\* configuration value as it was, the recognized keys of that update included;
\* no unrecognized key ever enters the configuration.
C6_RejectedWholesale ==
    [][/\ ret'.status = "rejected" =>
             /\ (DOMAIN ret'.arg) \ valid_keys # {}
             /\ config' = config
       /\ DOMAIN config' \subseteq valid_keys]_vars

\* C6 witness: a rejected update named auto_apply_enabled with a new value,
\* and the configuration still holds the old one.
C6_Witness ==
    /\ ret.status = "rejected"
    /\ "auto_apply_enabled" \in DOMAIN ret.arg
    /\ ret.arg.auto_apply_enabled # config.auto_apply_enabled

RECURSIVE IsSubsequence(_, _)
IsSubsequence(a, b) ==
    IF a = <<>> THEN TRUE
    ELSE IF b = <<>> THEN FALSE
    ELSE IF Head(a) = Head(b) THEN IsSubsequence(Tail(a), Tail(b))
    ELSE IsSubsequence(a, Tail(b))

DedupKey(job) == KeyOf(dd_agent, job)

FirstWithKey(key) ==
    CHOOSE i \in 1..Len(dd_jobs) :
        /\ DedupKey(dd_jobs[i]) = key
        /\ \A j \in 1..(i - 1) : DedupKey(dd_jobs[j]) # key

\* C7: each deduplicator returns a subsequence of its input, in input order,
\* holding exactly one listing for every key of the input, and that listing is
\* the first of the input with the key.
C7_FirstOccurrenceWins ==
    dd_pc = "done" =>
        /\ IsSubsequence(dd_out, dd_jobs)
        /\ \A i \in 1..Len(dd_jobs) :
              Cardinality({k \in 1..Len(dd_out) :
                              DedupKey(dd_out[k]) = DedupKey(dd_jobs[i])}) = 1
        /\ \A k \in 1..Len(dd_out) :
              dd_out[k] = dd_jobs[FirstWithKey(DedupKey(dd_out[k]))]

\* C7 witness: of three listings the third has the key of the first but other
\* text; the first two are returned.
C7_Witness ==
    /\ dd_pc = "done"
    /\ Len(dd_jobs) = 3
    /\ dd_jobs[3] # dd_jobs[1]
    /\ DedupKey(dd_jobs[3]) = DedupKey(dd_jobs[1])
    /\ dd_out = <<dd_jobs[1], dd_jobs[2]>>

\* C8: a listing is submitted successfully at most once per profile, over any
\* sequence of calls and within one call that names it twice.
C8_SubmittedAtMostOnce == \A p \in UserIds \X JobIds : submitted[p] <= 1

\* C9: stopping auto-mode never ends a trigger_job_search call of the auto loop
\* by cancellation: the run in progress returns its result.
C9_StopKeepsRun == ~(ret.op = "trigger_job_search" /\ ret.status = "cancelled")

LoopAlive(l) == loop[l].pc \in {"created", "sleeping", "trigger_job_search"}

\* C10: when stop_auto_mode returns "stopped", no auto-mode loop task of the
\* orchestrator is alive.
C10_StoppedMeansTerminated ==
    ret.op = "stop_auto_mode" /\ ret.status = "stopped" => \A l \in LoopIds : ~LoopAlive(l)

PhaseFailed(r) == r.scraping = "failed" \/ r.scoring = "failed"

\* C13: a run whose Search or Score phase returned a failed result skips its
\* Apply phase: the phase has no result and the dispatcher is not invoked, also
\* when auto_apply_enabled is true.
C13_ApplySkippedAfterFailure ==
    /\ \A t \in Tasks :
          PhaseFailed(run[t]) => run[t].autoapply = "none" /\ ~run[t].invoked
    /\ ret.status = "completed" /\ PhaseFailed(ret.phases) =>
          ret.phases.autoapply = "none" /\ ~ret.phases.invoked

PhaseResults == {"ok", "failed"}

\* C14: a phase that raised leaves its failed result and the run goes on: a run
\* in a phase never moves to the except clause of trigger_job_search or out of
\* the call, every run that reaches the completion log has a result for Search,
\* Score and Track, and a completed run returns them.
C14_PhaseFailureCaptured ==
    [][/\ \A t \in Tasks :
             run[t].pc \in {"scraping", "scoring", "tracking"} /\ run'[t] # run[t] =>
                /\ run'[t].pc \in {"scoring", "tracking", "log_complete"}
                /\ run'[t][run[t].pc] \in PhaseResults
       /\ \A t \in Tasks :
             run'[t].pc = "log_complete" =>
                /\ run'[t].scraping \in PhaseResults
                /\ run'[t].scoring \in PhaseResults
                /\ run'[t].tracking \in PhaseResults
       /\ ret'.status = "completed" =>
             /\ ret'.phases.scraping \in PhaseResults
             /\ ret'.phases.scoring \in PhaseResults
             /\ ret'.phases.tracking \in PhaseResults]_vars

\* C14 witness: a completed run whose Search and Score phases both raised and
\* whose Track phase still ran and succeeded.
C14_Witness ==
    /\ ret.status = "completed"
    /\ ret.phases.scraping = "failed"
    /\ ret.phases.scoring = "failed"
    /\ ret.phases.tracking = "ok"

\* What a run holds at each of its positions: the results of the phases before
\* it, and none of the phases from it on.
PhaseOrder(r) ==
    /\ r.pc \in {"log_start", "scraping"} =>
          r.scraping = "none" /\ r.scoring = "none" /\ r.autoapply = "none"
          /\ r.tracking = "none"
    /\ r.pc = "scoring" =>
          r.scraping # "none" /\ r.scoring = "none" /\ r.autoapply = "none"
          /\ r.tracking = "none"
    /\ r.pc = "tracking" =>
          r.scraping # "none" /\ r.scoring # "none" /\ r.tracking = "none"
    /\ r.pc = "log_complete" =>
          r.scraping # "none" /\ r.scoring # "none" /\ r.tracking # "none"

\* C15: within a run the phases execute one at a time in the order Search,
\* Score, Apply (when executed), Track: a phase is begun only with the results
\* of all the phases before it present and with no result of a later phase,
\* and every step of a run sets the result of the one phase it was in (and of
\* Apply, right after Score).
C15_PhasesInOrder ==
    [][/\ \A t \in Tasks : PhaseOrder(run[t]) /\ PhaseOrder(run'[t])
       /\ \A t \in Tasks :
             /\ run[t].scraping = "none" /\ run'[t].scraping # "none" =>
                   run[t].pc = "scraping" /\ run'[t].pc = "scoring"
             /\ run[t].scoring = "none" /\ run'[t].scoring # "none" =>
                   run[t].pc = "scoring" /\ run'[t].pc = "tracking"
             /\ run[t].autoapply = "none" /\ run'[t].autoapply # "none" =>
                   run[t].pc = "scoring" /\ run'[t].scoring # "none"
                   /\ run'[t].pc = "tracking"
             /\ run[t].tracking = "none" /\ run'[t].tracking # "none" =>
                   run[t].pc = "tracking" /\ run'[t].pc = "log_complete"]_vars

\* C15 witness: a run with the Apply phase executed is in its Track phase.
C15_Witness ==
    \E t \in Tasks :
        /\ run[t].pc = "tracking"
        /\ run[t].scraping = "ok"
        /\ run[t].scoring = "ok"
        /\ run[t].autoapply = "ok"

\* C16: the Apply phase of a run is executed exactly when auto_apply_enabled is
\* true as the run reaches it; when it is false the run does not invoke the
\* dispatcher; and what the phase hands to the dispatcher, of any list of top
\* job ids, is at most max_auto_applications listings.
C16_ApplyOnlyWhenEnabled ==
    [][/\ \A t \in Tasks :
             run[t].pc = "scoring" /\ run'[t].pc = "tracking" =>
                /\ (run'[t].autoapply # "none") <=> config.auto_apply_enabled
                /\ ~config.auto_apply_enabled => ~run'[t].invoked
                /\ Len(run'[t].dispatched) <= config.max_auto_applications
       /\ \A t \in Tasks : run'[t].invoked => run'[t].autoapply # "none"
       /\ \A top \in JobIdSeqs :
             Len(job_ids_to_apply(top, config')) <= config'.max_auto_applications]_vars

\* C16 witness: auto-apply was enabled while a run was in its Score phase; the
\* run executed the Apply phase and completed.
C16_Witness ==
    /\ ret.status = "completed"
    /\ ret.phases.autoapply = "ok"
    /\ ret.phases.scoring = "ok"
    /\ config.auto_apply_enabled

\* C11: once stop_auto_mode has been called and until start_auto_mode is called
\* again (the flag is cleared by the first step of stop and set by nothing but
\* start), get_system_status reports auto-mode disabled, no auto-mode loop
\* begins a run, and a loop that was sleeping ends when it wakes.
C11_StoppedLoopTriggersNoRun ==
    [][/\ \A c \in Callers :
             call[c] = "idle" /\ call'[c] = "stop_auto_mode" => ~auto_mode_enabled'
       /\ ~auto_mode_enabled /\ auto_mode_enabled' =>
             \E c \in Callers : call[c] = "idle" /\ call'[c] = "start_auto_mode"
       /\ ~auto_mode_enabled =>
             \A l \in LoopIds :
                /\ loop'[l].pc = "trigger_job_search" => loop[l].pc = "trigger_job_search"
                /\ InRun(<<"loop", l>>)' => InRun(<<"loop", l>>)
                /\ loop[l].pc = "sleeping" /\ loop'[l] # loop[l] => loop'[l].pc = "done"
       /\ ~auto_mode_enabled /\ ret'.op = "get_system_status" /\ ret'.status = "ok" =>
             ~ret'.payload.auto_mode_enabled]_vars

\* C11 witness: auto-mode was stopped while a loop was sleeping after a run it
\* had triggered; the status read reports auto-mode disabled, and the loop has
\* not woken yet.
C11_Witness ==
    /\ ret.op = "get_system_status"
    /\ ret.status = "ok"
    /\ ~ret.payload.auto_mode_enabled
    /\ last_scraping_time # None
    /\ \E l \in LoopIds : loop[l].pc = "sleeping"

\* C12: at most one auto-mode loop task of the orchestrator is alive at any time.
C12_OneLoopAlive == Cardinality({l \in LoopIds : LoopAlive(l)}) <= 1

\* The step starts a call of dispatcher c.
CallStarts(c) == ap[c].pc \in {"idle", "returned", "raised"} /\ batches' = batches + 1

\* The step is one of a call of dispatcher c that is between two tasks, with
\* tasks left, and finds the quota exhausted.
ExhaustedMidBatch(c) ==
    /\ ap[c].pc = "loop"
    /\ ap[c].i <= Len(ap[c].job_ids)
    /\ applications_today >= max_applications_per_day
    /\ ap'[c] # ap[c]

\* C17: the quota follows the local day: a call is turned away for the quota,
\* at its start or between two tasks, only when the submissions accepted since
\* midnight have reached max_applications_per_day.
C17_QuotaResetsNextDay ==
    [][\A c \in {1} :
          /\ CallStarts(c) /\ ap'[c].exit = "limit_at_start" =>
                submitted_today >= max_applications_per_day
          /\ ExhaustedMidBatch(c) => submitted_today >= max_applications_per_day]_vars

\* C18: a call that finds the quota exhausted at its start returns the empty
\* list, and a call that finds it exhausted between two tasks returns exactly
\* the results it has produced; neither raises, and neither adds a result for
\* a task it did not process.
C18_QuotaStopReturnsResults ==
    [][\A c \in {1} :
          /\ CallStarts(c) /\ applications_today >= max_applications_per_day =>
                ap'[c].pc = "returned" /\ ap'[c].results = <<>>
          /\ ExhaustedMidBatch(c) =>
                ap'[c].pc = "returned" /\ ap'[c].results = ap[c].results]_vars

Successes(results) == Cardinality({k \in 1..Len(results) : results[k].success})

\* The step appends a result to the list of call c.
ResultAppended(c) ==
    /\ ap[c].pc = "applying"
    /\ Len(ap'[c].results) = Len(ap[c].results) + 1

\* C20: applications_today changes only by the increment of one that goes with
\* the appending of a successful result, every successful result appended is
\* counted, and when a call returns the counter has grown since the call's
\* start by the number of successful results in the returned list.
C20_CountsSuccesses ==
    [][/\ applications_today' # applications_today =>
             /\ applications_today' = applications_today + 1
             /\ \E c \in Dispatchers :
                   ResultAppended(c) /\ ap'[c].results[Len(ap'[c].results)].success
       /\ \A c \in Dispatchers :
             ResultAppended(c) =>
                applications_today' = applications_today +
                    (IF ap'[c].results[Len(ap'[c].results)].success THEN 1 ELSE 0)
       /\ \A c \in Dispatchers :
             ap'[c].pc = "returned" =>
                applications_today' - ap'[c].before = Successes(ap'[c].results)]_vars

\* C20 witness: a call returned three results, two accepted and one failed,
\* and the counter went from 0 to 2.
C20_Witness ==
    /\ ap[1].pc = "returned"
    /\ Len(ap[1].results) = 3
    /\ Successes(ap[1].results) = 2
    /\ ap[1].before = 0
    /\ applications_today = 2

\* The strategy the fixed priority order gives a listing: the handler of its
\* source when the source is a known portal, else email for a mailto target,
\* else the generic form strategy when there is a target, else manual.
PriorityMethod(job) ==
    IF job.source \in {"linkedin", "indeed", "internshala"} THEN job.source
    ELSE IF job.apply_url # <<>> /\ job.apply_url[1] = "mailto:" THEN "email"
    ELSE IF job.apply_url # <<>> THEN "form"
    ELSE "manual"

\* The form strategy of the HTTP-session mode counts as the generic form strategy.
StrategyKind(method) == IF method = "http_form" THEN "form" ELSE method

\* C19: in every mode of the dispatcher the strategy chosen for a listing is
\* the one the priority order gives it, and _apply_to_job awaits the handler of
\* that strategy (the manual outcome has none).
C19_MethodPriority ==
    /\ dm_pc \in {"determined", "dispatched"} =>
          StrategyKind(dm_method) = PriorityMethod(dm_job)
    /\ dm_pc = "dispatched" =>
          StrategyKind(dm_handler) =
              IF PriorityMethod(dm_job) = "manual" THEN "_apply_generic"
              ELSE PriorityMethod(dm_job)

LoopChecks(l) ==
    /\ loop[l].pc \in {"created", "sleeping"}
    /\ loop'[l] # loop[l]
    /\ auto_mode_enabled

\* Loop l calls trigger_job_search: its run begins, or the call is rejected as busy.
LoopTriggers(l) ==
    \/ loop'[l].pc = "trigger_job_search"
    \/ ret' = Ret(<<"loop", l>>, "trigger_job_search", "busy")

\* C22: while auto-mode is enabled an iteration of the loop triggers a run
\* exactly when no Search phase has succeeded yet or scraping_interval_hours
\* have elapsed since the last one that did; the last-search time is the time
\* of the last successful Search phase (a failed one leaves it alone); and the
\* loop sleeps an hour after every iteration, triggered or not, before it
\* checks again.
C22_LoopTriggersWhenDue ==
    [][/\ \A l \in LoopIds :
             LoopChecks(l) =>
                (LoopTriggers(l) <=>
                    \/ last_scraping_time = None
                    \/ now - last_scraping_time >= config.scraping_interval_hours)
       /\ \A t \in Tasks :
             run[t].pc = "scraping" /\ run'[t].pc # "scraping" =>
                IF run'[t].scraping = "ok"
                THEN last_scraping_time' = now
                ELSE last_scraping_time' = last_scraping_time
       /\ last_scraping_time' # last_scraping_time =>
             \E t \in Tasks : run[t].pc = "scraping" /\ run'[t].scraping = "ok"
       /\ \A l \in LoopIds :
             /\ LoopChecks(l) =>
                   /\ loop[l].pc = "sleeping" => now >= loop[l].wake
                   /\ loop'[l].pc \in {"sleeping", "trigger_job_search"}
                   /\ loop'[l].pc = "sleeping" => loop'[l].wake = now + 1
             /\ loop[l].pc = "trigger_job_search" /\ loop'[l] # loop[l] =>
                   loop'[l] = [pc |-> "sleeping", wake |-> now + 1]]_vars

\* C22 witness: with an hourly interval and a Search phase that succeeded at
\* hour 0, a loop that woke at hour 1 has begun its run.
C22_Witness ==
    /\ config.scraping_interval_hours = 1
    /\ now = 1
    /\ last_scraping_time = 0
    /\ auto_mode_enabled
    /\ \E l \in LoopIds : loop[l].pc = "trigger_job_search"

\* C22 witness of the other side: under the same interval a loop that checked
\* at hour 0, after the successful Search of hour 0, sleeps without a run.
C22_WitnessNotDue ==
    /\ config.scraping_interval_hours = 1
    /\ now = 0
    /\ last_scraping_time = 0
    /\ auto_mode_enabled
    /\ ~workflow_running
    /\ \E l \in LoopIds : loop[l] = [pc |-> "sleeping", wake |-> 1]

\* The trigger_job_search calls of SimpleSupervisorAgent suspended in the
\* scraper or in the save that follows it.
Searching == { t \in Tasks : search[t].pc \in {"scraping", "saving"} }

\* C23: in SimpleSupervisorAgent at most one search run executes at a time: a
\* trigger_job_search call made while another is suspended in the scraper does
\* not start a second scrape.
C23_OneSearchAtATime == Cardinality(Searching) <= 1

\* The required skills, as positions of the list, that the candidate has, and
\* those the candidate lacks but has a related skill for.
ExactPositions(user_skills, required_skills) ==
    { k \in 1..Len(required_skills) :
         \E j \in 1..Len(user_skills) : Lower(user_skills[j]) = Lower(required_skills[k]) }

PartialPositions(user_skills, required_skills) ==
    { k \in 1..Len(required_skills) :
         /\ k \notin ExactPositions(user_skills, required_skills)
         /\ \E j \in 1..Len(user_skills) :
               PartialTest(Lower(required_skills[k]), Lower(user_skills[j])) }

MaxOf(a, b) == IF a >= b THEN a ELSE b

\* C24: the call yields score = (exact_count * 1.0 + partial_count * 0.5) /
\* max(required_count, 1), reported as match_percentage = 100 * score; the
\* percentage lies in [0, 100] and is 0 when no skill is required.
C24_ScoreFormula ==
    sm_pc = "done" =>
       LET exact_count == Cardinality(ExactPositions(sm_user, sm_required))
           partial_count == Cardinality(PartialPositions(sm_user, sm_required))
           required_count == Len(sm_required)
           pct == sm_out.match_percentage
       IN  /\ Len(sm_out.exact_matches) = exact_count
           /\ Len(sm_out.partial_matches) = partial_count
           /\ pct.den > 0
           /\ pct.num * 2 * MaxOf(required_count, 1) =
                 100 * (2 * exact_count + partial_count) * pct.den
           /\ pct.num >= 0
           /\ pct.num <= 100 * pct.den
           /\ required_count = 0 => pct.num = 0

\* C24 witness: three skills required, of which the candidate has one exactly
\* and one through a related skill.
C24_Witness ==
    /\ sm_pc = "done"
    /\ Len(sm_required) = 3
    /\ Len(sm_out.exact_matches) = 1
    /\ Len(sm_out.partial_matches) = 1
    /\ sm_out.match_percentage = [num |-> 300, den |-> 6]

\* The percentage of one call is at most that of another.
AtMost(p, q) == p.num * q.den <= q.num * p.den

\* C25: one more exact match does not decrease the score: when the candidate
\* gains a skill the listing requires (a required skill that was missing or
\* partially matched becomes exactly matched), all else fixed, the percentage
\* calculate_skill_match returns is at least what it was.
C25_ExactMatchMonotone ==
    sm_pc = "done" =>
       \A skill \in SkillPool :
          InList(Lower(skill), LowerAll(sm_required)) =>
             AtMost(sm_out.match_percentage,
                    calculate_skill_match(Append(sm_user, skill), sm_required).match_percentage)

\* C25 witness: javascript is required and matched only through react; with
\* javascript itself the candidate scores strictly more.
C25_Witness ==
    /\ sm_pc = "done"
    /\ sm_user = <<react>>
    /\ sm_required = <<javascript, docker>>
    /\ sm_out.match_percentage = [num |-> 100, den |-> 4]
    /\ calculate_skill_match(<<react, javascript>>, sm_required).match_percentage
          = [num |-> 200, den |-> 4]

\* C26: for candidate skills {python, react} and required skills {python,
\* javascript, docker} the call returns exact_matches = {python}, javascript
\* partially matched through react, missing_skills = {docker} and the score
\* (1.0 + 0.5) / 3 = 0.5.
C26_Scenario ==
    sm_pc = "done" /\ sm_user = <<python, react>>
        /\ sm_required = <<python, javascript, docker>> =>
       /\ sm_out.exact_matches = <<python>>
       /\ sm_out.partial_matches = <<[required_skill |-> javascript, user_skill |-> react]>>
       /\ sm_out.missing_skills = <<docker>>
       /\ sm_out.match_percentage.num = 50 * sm_out.match_percentage.den

\* C26 witness: the call of the scenario has returned.
C26_Witness ==
    /\ sm_pc = "done"
    /\ sm_user = <<python, react>>
    /\ sm_required = <<python, javascript, docker>>
    /\ sm_out.total_required = 3

\* The identity of a listing: its title and its company, lower-cased and trimmed.
IdentityKey(job) == <<Strip(Lower(job.title)), Strip(Lower(job.company))>>

\* C27: both deduplicators key a listing by its lower-cased and trimmed title
\* and company: the list either returns holds no two listings with one
\* identity (so "A" at "a" and "a" at " A" come back as one entry).
C27_KeyLowerCasedTrimmed ==
    dd_pc = "done" =>
       \A i, j \in 1..Len(dd_out) :
          i < j => IdentityKey(dd_out[i]) # IdentityKey(dd_out[j])

\* The three components of a query, normalized: keywords and location
\* lower-cased and trimmed, and the requested count (50 when absent).
NormalizedQuery(search_params) ==
    <<Strip(Lower(search_params.keywords)),
      Strip(Lower(search_params.location)),
      IF search_params.max_results = None THEN 50 ELSE search_params.max_results>>

\* C28: two queries address the same cache entry exactly when their three
\* normalized components are equal: a search served from the cache is served
\* the result of a query with the same components, and an entry is filed
\* under the key of every query with the components of the one that made it.
C28_CacheKeyIdentity ==
    /\ ret.op = "trigger_job_search" /\ ret.status = "cached" =>
          NormalizedQuery(ret.arg) = NormalizedQuery(ret.payload.search_params)
    /\ \A k \in DOMAIN search_results_cache :
          \A q \in JoinedPool :
             NormalizedQuery(q) = NormalizedQuery(search_results_cache[k].search_params)
                => _create_cache_key(q) = k

\* The options the configuration is said to recognize.
RecognizedOptions ==
    {"scraping_interval_hours", "scoring_threshold", "max_auto_applications",
     "auto_apply_enabled", "follow_up_interval_days", "max_applications_per_day"}

\* C29: update_configuration accepts every update made only of the recognized
\* options, max_applications_per_day among them: such an update is not
\* rejected, the call returns success, and the configuration then holds the
\* new value of each key of the update.
C29_RecognizedUpdateAccepted ==
    /\ ret.op = "update_configuration" /\ ret.status = "rejected" =>
          ~((DOMAIN ret.arg) \subseteq RecognizedOptions)
    /\ ret.op = "update_configuration" => ret.status \in {"rejected", "updated"}

\* C30: no public operation raises: every auto_apply_to_jobs call, the one
\* for an unknown profile included, ends by returning, and so does every
\* operation of the orchestrator.
C30_NoOperationRaises ==
    /\ \A c \in Dispatchers : ap[c].pc # "raised"
    /\ ret.status # "raised"

C32_AutoTaskIsLiveLoop ==
    is_auto_mode =>
       /\ auto_task # None
       /\ s_loop[auto_task].pc \notin {"none", "done"}

\* The tasks of call c that are over: those before the one at hand.
TasksOver(a) ==
    IF a.pc \in {"loop", "applying"} THEN a.i - 1
    ELSE IF a.pc = "delay" THEN a.i
    ELSE Len(a.job_ids)

Named(list) == { list[k] : k \in 1..Len(list) }

PartiallyNamed(list) == { list[k].required_skill : k \in 1..Len(list) }

\* C34: calculate_skill_match places every required skill in exactly one of
\* exact_matches, partial_matches and missing_skills, so the three sizes sum to
\* the number of required skills; a required skill the candidate holds up to
\* letter case is exact, never partial or missing; a skill is missing only if
\* it has neither an exact nor a partial match.
C34_SkillsPartitioned ==
    sm_pc = "done" =>
       LET exact == Named(sm_out.exact_matches)
           partial == PartiallyNamed(sm_out.partial_matches)
           missing == Named(sm_out.missing_skills)
           held == ExactPositions(sm_user, sm_required)
           related == PartialPositions(sm_user, sm_required)
       IN  /\ Len(sm_out.exact_matches) + Len(sm_out.partial_matches)
                 + Len(sm_out.missing_skills) = Len(sm_required)
           /\ exact \cap partial = {}
           /\ exact \cap missing = {}
           /\ partial \cap missing = {}
           /\ \A k \in 1..Len(sm_required) :
                 /\ sm_required[k] \in exact \cup partial \cup missing
                 /\ k \in held <=> sm_required[k] \in exact
                 /\ k \in related <=> sm_required[k] \in partial
                 /\ sm_required[k] \in missing <=> k \notin held \cup related

\* C34 witness: of three required skills one is held in another letter case,
\* one is matched through a related skill and one is missing.
C34_Witness ==
    /\ sm_pc = "done"
    /\ sm_user = <<Python, react>>
    /\ sm_required = <<python, javascript, docker>>
    /\ sm_out.exact_matches = <<python>>
    /\ PartiallyNamed(sm_out.partial_matches) = {javascript}
    /\ sm_out.missing_skills = <<docker>>

\* C35: whenever update_configuration returns success False, whether for an
\* unknown key or for a failure of the save or of the log that follow the
\* validation, the configuration is what it was when the call was made.
C35_FailedUpdateChangesNothing ==
    [][\A c \in Callers :
          /\ ret'.op = "update_configuration"
          /\ ret'.task = <<"caller", c>>
          /\ ret'.status \in {"rejected", "failed"}
          => config' = (IF call[c] = "update_configuration"
                        THEN run[<<"caller", c>>].before
                        ELSE config)]_vars

\* C36: a trigger_job_search of SimpleSupervisorAgent that returns success
\* False leaves the cache and last_search_time as they were; the cache and
\* last_search_time are written only by a search that returns its result, so
\* a failed search is never cached and the key it failed for is served from
\* the cache only if a successful search stored it.
C36_FailedSearchNotCached ==
    [][/\ ret'.op = "trigger_job_search" /\ ret'.status = "failed" =>
             /\ search_results_cache' = search_results_cache
             /\ last_search_time' = last_search_time
       /\ search_results_cache' # search_results_cache \/ last_search_time' # last_search_time =>
             /\ ret'.op = "trigger_job_search"
             /\ ret'.status = "ok"
             /\ search_results_cache'[ret'.payload.cache_key] = ret'.payload
             /\ \A k \in DOMAIN search_results_cache :
                   k # ret'.payload.cache_key =>
                      search_results_cache'[k] = search_results_cache[k]]_vars

\* C36 witness: a search failed while the cache holds the result of another
\* query and no entry for the key of the failed one: the same query scrapes again.
C36_Witness ==
    /\ ret.op = "trigger_job_search"
    /\ ret.status = "failed"
    /\ search_results_cache # <<>>
    /\ last_search_time # None
    /\ ~_is_cache_valid(_create_cache_key(ret.arg))

\* C37: a cache hit writes nothing: the entry it serves keeps the timestamp of
\* its creation and last_search_time keeps its value; the timestamp of an
\* entry changes only when a search stores a new result under the key, so an
\* entry is served for less than max_cache_age from its creation however
\* often it is served.
C37_HitLeavesCacheAlone ==
    [][/\ ret'.op = "trigger_job_search" /\ ret'.status = "cached" =>
             /\ search_results_cache' = search_results_cache
             /\ last_search_time' = last_search_time
             /\ clock' - fromisoformat(ret'.payload.timestamp) < max_cache_age
       /\ \A k \in (DOMAIN search_results_cache) \cap (DOMAIN search_results_cache') :
             search_results_cache'[k].timestamp # search_results_cache[k].timestamp =>
                /\ ret'.status = "ok"
                /\ ret'.payload.cache_key = k
                /\ fromisoformat(search_results_cache'[k].timestamp) = clock']_vars

\* C37 witness: an entry is served from the cache after a later search of
\* another query moved last_search_time past the entry's creation.
C37_Witness ==
    /\ ret.op = "trigger_job_search"
    /\ ret.status = "cached"
    /\ Age(ret.payload) >= 1
    /\ last_search_time # None
    /\ last_search_time > fromisoformat(ret.payload.timestamp)

\* C38: a deduplicator collapses two listings only if their normalized titles
\* are equal and their normalized companies are equal, also when a title or a
\* company holds the character the key is joined with: every listing handed
\* in has a listing of the same title and company, up to case and outer
\* blanks, in the list that comes back.
C38_CollapsesOnlyEqualListings ==
    dd_pc = "done" =>
       \A i \in 1..Len(dd_jobs) :
          \E j \in 1..Len(dd_out) : IdentityKey(dd_out[j]) = IdentityKey(dd_jobs[i])

====
